---- MODULE Spec2Model ----
(***************************************************************************)
(* Model of the rescuemesh matching service: the orchestration pipeline    *)
(* processSOSRequest (services/matchingService.js), the matches table      *)
(* (config/database.js) and the lifecycle routes (routes/matching.js).     *)
(*                                                                         *)
(* Numbers.  Scores are kept as integers at ScoreScale units per point     *)
(* (5.0 is 2500), which makes every product of the scoring formula exact   *)
(* for integer trust scores and integer kilometres.  Timestamps are the    *)
(* ticks of a logical clock; 0 stands for SQL NULL in a timestamp column   *)
(* and -1 for NULL / undefined in a numeric field.                         *)
(***************************************************************************)
EXTENDS Integers, Sequences, FiniteSets, TLC

VARIABLES
    matchesTable,  \* rows of the table "matches"
    now,           \* CURRENT_TIMESTAMP
    nextUuid,      \* source of uuidv4(): the next fresh identifier
    published,     \* messages handed to publishToQueue, in order
    sosStatus,     \* SOS-request service: requestId -> status last PUT
    maxMatchesEnv, \* process.env.MAX_MATCHES_PER_REQUEST (0 = unset)
    run,           \* the invocations of processSOSRequest
    call,          \* the Accept / Reject requests
    stats,         \* the GET /stats request
    post,          \* the last POST /match that validateMatchRequest answered
    probe          \* one application of the scoring of a candidate

vars == <<matchesTable, now, nextUuid, published, sosStatus, maxMatchesEnv, run, call,
          stats, post, probe>>

-----------------------------------------------------------------------------
(* Bounds of the model *)

MaxRuns == 1
MaxCalls == 2
MaxTime == 2
MaxRepeats == 2
MaxDistance == 100

Runs == 1..MaxRuns
Calls == 1..MaxCalls
Repeats == 1..MaxRepeats

-----------------------------------------------------------------------------
(* Values *)

NULL == "null"
NULLN == 0 - 1
NoTime == 0

ScoreScale == 500
DefaultTrust == 5
DefaultMaxMatches == 10
MaxMatchRadius == 50
MatchScoreThreshold == 5 * ScoreScale
ResourceScore == 8 * ScoreScale

Min(a, b) == IF a <= b THEN a ELSE b
Max(a, b) == IF a >= b THEN a ELSE b
Abs(a) == IF a >= 0 THEN a ELSE 0 - a

DISASTER_SKILL_MAP ==
    [flood      |-> <<"boat_operator", "swimmer", "medic", "rescue_diver">>,
     earthquake |-> <<"rescuer", "structural_engineer", "medic", "heavy_lifting">>,
     cyclone    |-> <<"shelter_manager", "logistics", "medic", "evacuation_specialist">>,
     fire       |-> <<"firefighter", "electrician", "medic", "smoke_diver">>,
     tsunami    |-> <<"rescue_diver", "medic", "boat_operator", "swimmer">>,
     landslide  |-> <<"rescuer", "medic", "heavy_lifting", "structural_engineer">>]

\* DISASTER_SKILL_MAP[disasterType] || []
RelevantSkills(disasterType) ==
    IF disasterType \in DOMAIN DISASTER_SKILL_MAP
    THEN DISASTER_SKILL_MAP[disasterType]
    ELSE <<>>

\* a faulty SkillsToFind, to test the claims against: the defaults are searched as well
SkillsToFindMerged(disasterType, requiredSkills) ==
    requiredSkills \o RelevantSkills(disasterType)

\* requiredSkills.length > 0 ? requiredSkills : relevantSkills
SkillsToFind(disasterType, requiredSkills) ==
    IF Len(requiredSkills) > 0 THEN requiredSkills ELSE RelevantSkills(disasterType)

-----------------------------------------------------------------------------
(* Configuration read from the environment *)

\* parseInt(process.env.MAX_MATCHES_PER_REQUEST || 10)
MaxMatchesPerRequest == IF maxMatchesEnv = NULLN THEN DefaultMaxMatches ELSE maxMatchesEnv

-----------------------------------------------------------------------------
(* Pure helpers of the matching service *)

\* utils/distance: kilometres between two points.  Coordinates of the model
\* are kilometres on a local grid, all points lying on one meridian.
calculateDistance(lat1, lon1, lat2, lon2) == Abs(lat1 - lat2) + Abs(lon1 - lon2)

\* JavaScript's (x || d) on a numeric field: undefined and 0 are falsy
OrDefault(x, d) == IF x = NULLN \/ x = 0 THEN d ELSE x

\* JavaScript's (a || b) on an identifier: undefined is falsy
OrElse(a, b) == IF a = NULL THEN b ELSE a

UrgencyMultiplier10(urgency) ==
    IF urgency = "critical" THEN 12 ELSE IF urgency = "high" THEN 11 ELSE 10

CertificationBonus(level) ==
    IF level = "expert" THEN ScoreScale
    ELSE IF level = "intermediate" THEN ScoreScale \div 2 ELSE 0

\* a faulty calculateMatchScore, to test the claims against: the distance score is not kept above 0
calculateMatchScoreNoFloor(skill, distance, urgency) ==
    LET trustPart     == (OrDefault(skill.trustScore, DefaultTrust) * 4 * ScoreScale) \div 10
        distanceScore == 10 * ScoreScale - (distance * 10 * ScoreScale) \div MaxMatchRadius
        base          == trustPart + (distanceScore * 3) \div 10
        scaled        == (base * UrgencyMultiplier10(urgency)) \div 10
    IN  Min(10 * ScoreScale, scaled + CertificationBonus(skill.certificationLevel))

\* calculateMatchScore, in units of 1/ScoreScale
calculateMatchScore(skill, distance, urgency) ==
    LET trustPart     == (OrDefault(skill.trustScore, DefaultTrust) * 4 * ScoreScale) \div 10
        distanceScore == Max(0, 10 * ScoreScale - (distance * 10 * ScoreScale) \div MaxMatchRadius)
        base          == trustPart + (distanceScore * 3) \div 10
        scaled        == (base * UrgencyMultiplier10(urgency)) \div 10
    IN  Min(10 * ScoreScale, scaled + CertificationBonus(skill.certificationLevel))

\* a faulty CompareScore, to test the claims against: the operands of the subtraction swapped
CompareScoreAscending(a, b) == a.matchScore - b.matchScore

\* matches.sort(compare): Array.prototype.sort is stable, so an element is
\* placed after every earlier element that does not compare greater than it.
CompareScore(a, b) == b.matchScore - a.matchScore
CompareDistance(a, b) == a.distance - b.distance

RECURSIVE InsertByScore(_, _)
InsertByScore(sorted, x) ==
    IF sorted = <<>> THEN <<x>>
    ELSE IF CompareScore(Head(sorted), x) <= 0
         THEN <<Head(sorted)>> \o InsertByScore(Tail(sorted), x)
         ELSE <<x>> \o sorted

RECURSIVE SortByScore(_)
SortByScore(seq) ==
    IF seq = <<>> THEN <<>>
    ELSE InsertByScore(SortByScore(SubSeq(seq, 1, Len(seq) - 1)), seq[Len(seq)])

RECURSIVE InsertByDistance(_, _)
InsertByDistance(sorted, x) ==
    IF sorted = <<>> THEN <<x>>
    ELSE IF CompareDistance(Head(sorted), x) <= 0
         THEN <<Head(sorted)>> \o InsertByDistance(Tail(sorted), x)
         ELSE <<x>> \o sorted

RECURSIVE SortByDistance(_)
SortByDistance(seq) ==
    IF seq = <<>> THEN <<>>
    ELSE InsertByDistance(SortByDistance(SubSeq(seq, 1, Len(seq) - 1)), seq[Len(seq)])

\* array.slice(0, n)
Slice(seq, n) == SubSeq(seq, 1, Min(n, Len(seq)))

\* the tail of findSkillMatches: sort by score, cut to the configured maximum
RankSkillMatches(matches, n) == Slice(SortByScore(matches), n)

\* the tail of findResourceMatches: sort by distance, cut to the configured maximum
RankResourceMatches(matches, n) == Slice(SortByDistance(matches), n)

\* the filter of findSkillMatches
SkillQualifies(skill, skillType) ==
    /\ skill.skillType = skillType
    /\ skill.availability = "available"
    /\ skill.verified = TRUE

\* the filter of findResourceMatches
ResourceQualifies(resource, resourceType) ==
    /\ resource.resourceType = resourceType
    /\ resource.availability = "available"

\* the object pushed for one filtered skill (the caller applies the threshold)
SkillMatch(skill, location, urgency) ==
    LET distance == calculateDistance(location.latitude, location.longitude,
                                      skill.location.latitude, skill.location.longitude)
    IN  [volunteerId  |-> skill.userId,
         skillId      |-> skill.skillId,
         skillType    |-> skill.skillType,
         matchScore   |-> calculateMatchScore(skill, distance, urgency),
         distance     |-> distance,
         trustScore   |-> OrDefault(skill.trustScore, DefaultTrust),
         availability |-> skill.availability]

\* the object pushed for one filtered resource
ResourceMatch(resource, location) ==
    [resourceId   |-> resource.resourceId,
     resourceType |-> resource.resourceType,
     ownerId      |-> resource.userId,
     distance     |-> calculateDistance(location.latitude, location.longitude,
                                        resource.location.latitude, resource.location.longitude)]

\* one iteration of the loop over skillsToFind, given the registry's answer
RECURSIVE SkillMatchesOf(_, _, _, _)
SkillMatchesOf(skills, skillType, location, urgency) ==
    IF skills = <<>> THEN <<>>
    ELSE LET m == SkillMatch(Head(skills), location, urgency)
             rest == SkillMatchesOf(Tail(skills), skillType, location, urgency)
         IN  IF SkillQualifies(Head(skills), skillType) /\ m.matchScore >= MatchScoreThreshold
             THEN <<m>> \o rest
             ELSE rest

\* one iteration of the loop over requiredResources, given the registry's answer
RECURSIVE ResourceMatchesOf(_, _, _)
ResourceMatchesOf(resources, resourceType, location) ==
    IF resources = <<>> THEN <<>>
    ELSE LET rest == ResourceMatchesOf(Tail(resources), resourceType, location)
         IN  IF ResourceQualifies(Head(resources), resourceType)
             THEN <<ResourceMatch(Head(resources), location)>> \o rest
             ELSE rest

-----------------------------------------------------------------------------
(* The world outside the service: requests, registries, callers *)

Origin == [latitude |-> 0, longitude |-> 0]
At(km) == [latitude |-> km, longitude |-> 0]

\* payloads of sos.request.created messages and validated POST /match bodies
Requests ==
    { [requestId |-> "req-1", disasterId |-> "dis-1", urgency |-> "medium",
       requiredSkills |-> <<"medic", "swimmer">>, requiredResources |-> <<"boat">>,
       location |-> Origin],
      [requestId |-> "req-1", disasterId |-> "dis-1", urgency |-> "critical",
       location |-> Origin],
      [requestId |-> "req-2", disasterId |-> "dis-2", urgency |-> "high",
       requiredSkills |-> <<>>, requiredResources |-> <<"boat", "tent">>,
       location |-> Origin] }

RequestIds == {q.requestId : q \in Requests}

\* what GET /api/disasters/:id may answer in data.disasterType
DisasterTypes == {"flood", "fire", "volcano"}

SkMedicExpert ==
    [userId |-> "vol-1", skillId |-> "sk-1", skillType |-> "medic",
     availability |-> "available", verified |-> TRUE, trustScore |-> 8,
     certificationLevel |-> "expert", location |-> At(10)]
SkSwimmer ==
    [userId |-> "vol-2", skillId |-> "sk-2", skillType |-> "swimmer",
     availability |-> "available", verified |-> TRUE, trustScore |-> 10,
     certificationLevel |-> "none", location |-> At(0)]
SkMedicZeroTrust ==
    [userId |-> "vol-3", skillId |-> "sk-3", skillType |-> "medic",
     availability |-> "available", verified |-> TRUE, trustScore |-> 0,
     certificationLevel |-> "intermediate", location |-> At(5)]
SkMedicUnverified ==
    [userId |-> "vol-2", skillId |-> "sk-4", skillType |-> "medic",
     availability |-> "available", verified |-> FALSE, trustScore |-> 9,
     certificationLevel |-> "expert", location |-> At(1)]
SkMedicBusy ==
    [userId |-> "vol-3", skillId |-> "sk-5", skillType |-> "medic",
     availability |-> "busy", verified |-> TRUE, trustScore |-> 9,
     certificationLevel |-> "expert", location |-> At(1)]
SkMedicFar ==
    [userId |-> "vol-1", skillId |-> "sk-6", skillType |-> "medic",
     availability |-> "available", verified |-> TRUE, trustScore |-> 3,
     certificationLevel |-> "none", location |-> At(45)]

\* what GET /api/skills may answer in data.skills (absent counts as [])
SkillResponses ==
    { <<SkMedicFar, SkMedicExpert, SkSwimmer, SkMedicUnverified>>,
      <<SkMedicZeroTrust, SkMedicBusy, SkMedicExpert>>,
      <<>> }

RsBoatFar ==
    [resourceId |-> "res-1", resourceType |-> "boat", userId |-> "vol-2",
     availability |-> "available", location |-> At(20)]
RsBoatNear ==
    [resourceId |-> "res-2", resourceType |-> "boat", userId |-> "vol-3",
     availability |-> "available", location |-> At(5)]
RsBoatBusy ==
    [resourceId |-> "res-3", resourceType |-> "boat", userId |-> "vol-1",
     availability |-> "in_use", location |-> At(1)]
RsTent ==
    [resourceId |-> "res-4", resourceType |-> "tent", userId |-> "vol-1",
     availability |-> "available", location |-> At(12)]
RsTentNoOwner ==
    [resourceId |-> "res-5", resourceType |-> "tent", userId |-> NULL,
     availability |-> "available", location |-> At(30)]

\* what GET /api/resources may answer in data.resources (absent counts as [])
ResourceResponses ==
    { <<RsBoatFar, RsBoatBusy, RsBoatNear, RsTent>>,
      <<RsTent, RsTentNoOwner>> }

\* the inputs of the runs that create the matches the lifecycle calls act on
LifecycleRequests ==
    { [requestId |-> "req-1", disasterId |-> "dis-1", urgency |-> "medium",
       requiredSkills |-> <<"medic">>, requiredResources |-> <<"boat">>,
       location |-> Origin] }
LifecycleSkillAnswers == { <<SkMedicExpert>> }
LifecycleResourceAnswers == { <<RsBoatNear>> }

\* callers of the lifecycle routes; NULL is a body without volunteerId
Volunteers == {"vol-1", "vol-3"}
Reasons == {"too far"}
NoSuchMatch == 0

\* values of MAX_MATCHES_PER_REQUEST the service is started with
MaxMatchesSettings == {NULLN, 1, 2}

-----------------------------------------------------------------------------
(* The table "matches" *)

\* DECIMAL(5,2): a score is stored rounded to hundredths
Decimal2(score) == ((2 * score + (ScoreScale \div 100)) \div (2 * (ScoreScale \div 100))) * (ScoreScale \div 100)

\* the row saveMatch inserts; unnamed columns take their defaults
SkillRow(matchId, requestId, match, ts) ==
    [match_id |-> matchId, request_id |-> requestId, volunteer_id |-> match.volunteerId,
     skill_id |-> match.skillId, skill_type |-> match.skillType,
     resource_id |-> NULL, resource_type |-> NULL,
     match_score |-> Decimal2(match.matchScore), distance |-> match.distance,
     trust_score |-> match.trustScore, status |-> "pending",
     created_at |-> ts, accepted_at |-> NoTime, rejected_at |-> NoTime,
     rejection_reason |-> NULL, updated_at |-> ts]

\* a faulty ResourceRow, to test the claims against: the resource type is written to skill_type as well
ResourceRowTyped(matchId, requestId, match, ts) ==
    [match_id |-> matchId, request_id |-> requestId, volunteer_id |-> match.ownerId,
     skill_id |-> NULL, skill_type |-> match.resourceType,
     resource_id |-> match.resourceId, resource_type |-> match.resourceType,
     match_score |-> Decimal2(ResourceScore), distance |-> match.distance,
     trust_score |-> NULLN, status |-> "pending",
     created_at |-> ts, accepted_at |-> NoTime, rejected_at |-> NoTime,
     rejection_reason |-> NULL, updated_at |-> ts]

\* the row saveResourceMatch inserts; unnamed columns take their defaults
ResourceRow(matchId, requestId, match, ts) ==
    [match_id |-> matchId, request_id |-> requestId, volunteer_id |-> match.ownerId,
     skill_id |-> NULL, skill_type |-> NULL,
     resource_id |-> match.resourceId, resource_type |-> match.resourceType,
     match_score |-> Decimal2(ResourceScore), distance |-> match.distance,
     trust_score |-> NULLN, status |-> "pending",
     created_at |-> ts, accepted_at |-> NoTime, rejected_at |-> NoTime,
     rejection_reason |-> NULL, updated_at |-> ts]

IsSkillMatch(match) == "skillType" \in DOMAIN match

RowOf(matchId, requestId, match, ts) ==
    IF IsSkillMatch(match) THEN SkillRow(matchId, requestId, match, ts)
    ELSE ResourceRow(matchId, requestId, match, ts)

\* the constraints of CREATE TABLE matches an INSERT must meet
InsertAllowed(table, row) ==
    /\ \A old \in table : old.match_id # row.match_id
    /\ row.request_id # NULL
    /\ row.volunteer_id # NULL

\* a faulty AcceptWhere, to test the claims against: the volunteer is not compared
AcceptWhereAnyVolunteer(row, matchId, volunteerId) == row.match_id = matchId

\* WHERE match_id = $2 AND volunteer_id = $3 (NULL equals nothing)
AcceptWhere(row, matchId, volunteerId) ==
    /\ row.match_id = matchId
    /\ volunteerId # NULL
    /\ row.volunteer_id = volunteerId

\* WHERE match_id = $3 AND volunteer_id = $4 (NULL equals nothing)
RejectWhere(row, matchId, volunteerId) ==
    /\ row.match_id = matchId
    /\ volunteerId # NULL
    /\ row.volunteer_id = volunteerId

\* SET status = 'accepted', accepted_at = CURRENT_TIMESTAMP, updated_at = CURRENT_TIMESTAMP
AcceptSet(row, ts) ==
    [row EXCEPT !.status = "accepted", !.accepted_at = ts, !.updated_at = ts]

\* SET status = 'rejected', rejected_at = CURRENT_TIMESTAMP, rejection_reason = $2, updated_at = CURRENT_TIMESTAMP
RejectSet(row, reason, ts) ==
    [row EXCEPT !.status = "rejected", !.rejected_at = ts,
                !.rejection_reason = reason, !.updated_at = ts]

-----------------------------------------------------------------------------
(* processSOSRequest: one run per trigger, one action per await *)

\* requiredSkills || [] and requiredResources || []
RequiredSkills(sosData) ==
    IF "requiredSkills" \in DOMAIN sosData THEN sosData.requiredSkills ELSE <<>>
RequiredResources(sosData) ==
    IF "requiredResources" \in DOMAIN sosData THEN sosData.requiredResources ELSE <<>>

\* The state of one run.  pc names the await the run is suspended at; the
\* other fields are the locals of processSOSRequest and of the two matchers
\* (skillAcc and resourceAcc are the arrays "matches" in the order of the
\* pushes).  lookup, lookupAnswer, skillQueries, resourceQueries,
\* skillFailures and resourceFailures record what the collaborators were
\* asked and what they answered; error is the error the run threw.  via is
\* the trigger of the run, response what the route POST /match answers once
\* the run has returned, statusAttempts the number of status reports sent.
NoResponse == [code |-> 0, requestId |-> NULL, matches |-> <<>>, resourceMatches |-> <<>>]

IdleRun ==
    [pc |-> "idle", via |-> "none", sosData |-> [requestId |-> NULL],
     lookup |-> "none", lookupAnswer |-> NULL,
     disasterType |-> "flood", skillsToFind |-> <<>>, idx |-> 0,
     skillQueries |-> 0, resourceQueries |-> 0,
     skillAcc |-> <<>>, resourceAcc |-> <<>>,
     skillFailures |-> <<>>, resourceFailures |-> <<>>,
     skillMatches |-> <<>>, resourceMatches |-> <<>>, savedMatches |-> <<>>,
     statusReport |-> "none", statusAttempts |-> 0, error |-> NULL,
     response |-> NoResponse]

\* where the run stands once both matchers have returned: at the first
\* INSERT, or at the status report when there is nothing to save
EnterSave(rr) ==
    IF rr.skillMatches \o rr.resourceMatches = <<>>
    THEN [rr EXCEPT !.pc = "status", !.idx = 0]
    ELSE [rr EXCEPT !.pc = "save", !.idx = 1]

\* findResourceMatches up to its first registry query
EnterResources(rr) ==
    IF RequiredResources(rr.sosData) = <<>>
    THEN EnterSave([rr EXCEPT !.resourceMatches =
                        RankResourceMatches(<<>>, MaxMatchesPerRequest)])
    ELSE [rr EXCEPT !.pc = "resources", !.idx = 1]

\* findSkillMatches up to its first registry query
EnterSkills(rr) ==
    LET stf == SkillsToFind(rr.disasterType, RequiredSkills(rr.sosData))
    IN  IF stf = <<>>
        THEN EnterResources([rr EXCEPT !.skillsToFind = stf, !.skillMatches =
                                RankSkillMatches(<<>>, MaxMatchesPerRequest)])
        ELSE [rr EXCEPT !.pc = "skills", !.skillsToFind = stf, !.idx = 1]

\* the queue consumer takes a message sos.request.created and calls
\* processSOSRequest on its data
StartRun(r, sosData) ==
    /\ run[r].pc = "idle"
    /\ \A earlier \in 1..(r - 1) : run[earlier].pc # "idle"
    /\ run' = [run EXCEPT ![r] = [IdleRun EXCEPT !.pc = "lookup", !.via = "queue",
                                                 !.sosData = sosData]]
    /\ UNCHANGED <<matchesTable, now, nextUuid, published, sosStatus, maxMatchesEnv, call, stats, post, probe>>

\* the disaster registry answers with a type
LookupOk(r, type) ==
    /\ run[r].pc = "lookup"
    /\ run' = [run EXCEPT ![r] = EnterSkills([@ EXCEPT !.lookup = "ok",
                       !.lookupAnswer = type, !.disasterType = type])]
    /\ UNCHANGED <<matchesTable, now, nextUuid, published, sosStatus, maxMatchesEnv, call, stats, post, probe>>

\* a faulty LookupFail, to test the claims against: the failed lookup is rethrown
LookupFailAborts(r) ==
    /\ run[r].pc = "lookup"
    /\ run' = [run EXCEPT ![r] = [@ EXCEPT !.lookup = "failed", !.pc = "failed",
                                           !.error = "lookup"]]
    /\ UNCHANGED <<matchesTable, now, nextUuid, published, sosStatus, maxMatchesEnv, call, stats, post, probe>>

\* the disaster registry fails or times out: the default type stays
LookupFail(r) ==
    /\ run[r].pc = "lookup"
    /\ run' = [run EXCEPT ![r] = EnterSkills([@ EXCEPT !.lookup = "failed"])]
    /\ UNCHANGED <<matchesTable, now, nextUuid, published, sosStatus, maxMatchesEnv, call, stats, post, probe>>

\* the end of one iteration of the skill loop: next query, or sort and return
AfterSkillQuery(rr) ==
    IF rr.idx < Len(rr.skillsToFind)
    THEN [rr EXCEPT !.idx = @ + 1]
    ELSE EnterResources([rr EXCEPT !.skillMatches =
                            RankSkillMatches(rr.skillAcc, MaxMatchesPerRequest)])

\* the skill registry answers the query made for skillsToFind[idx]
SkillQueryOk(r, skills) ==
    /\ run[r].pc = "skills"
    /\ LET rr == run[r]
           found == SkillMatchesOf(skills, rr.skillsToFind[rr.idx],
                                   rr.sosData.location, rr.sosData.urgency)
       IN  run' = [run EXCEPT ![r] = AfterSkillQuery(
                       [rr EXCEPT !.skillQueries = @ + 1, !.skillAcc = @ \o found])]
    /\ UNCHANGED <<matchesTable, now, nextUuid, published, sosStatus, maxMatchesEnv, call, stats, post, probe>>

\* a faulty SkillQueryFail, to test the claims against: the failure leaves the loop, the matcher returns []
SkillQueryFailAbandons(r) ==
    /\ run[r].pc = "skills"
    /\ LET rr == run[r]
       IN  run' = [run EXCEPT ![r] = EnterResources(
                       [rr EXCEPT !.skillQueries = @ + 1,
                                  !.skillFailures = Append(@, rr.skillsToFind[rr.idx]),
                                  !.skillMatches = <<>>])]
    /\ UNCHANGED <<matchesTable, now, nextUuid, published, sosStatus, maxMatchesEnv, call, stats, post, probe>>

\* the query made for skillsToFind[idx] fails: logged, next tag
SkillQueryFail(r) ==
    /\ run[r].pc = "skills"
    /\ LET rr == run[r]
       IN  run' = [run EXCEPT ![r] = AfterSkillQuery(
                       [rr EXCEPT !.skillQueries = @ + 1,
                                  !.skillFailures = Append(@, rr.skillsToFind[rr.idx])])]
    /\ UNCHANGED <<matchesTable, now, nextUuid, published, sosStatus, maxMatchesEnv, call, stats, post, probe>>

\* the end of one iteration of the resource loop: next query, or sort and return
AfterResourceQuery(rr) ==
    IF rr.idx < Len(RequiredResources(rr.sosData))
    THEN [rr EXCEPT !.idx = @ + 1]
    ELSE EnterSave([rr EXCEPT !.resourceMatches =
                       RankResourceMatches(rr.resourceAcc, MaxMatchesPerRequest)])

\* the resource registry answers the query made for requiredResources[idx]
ResourceQueryOk(r, resources) ==
    /\ run[r].pc = "resources"
    /\ LET rr == run[r]
           found == ResourceMatchesOf(resources, RequiredResources(rr.sosData)[rr.idx],
                                      rr.sosData.location)
       IN  run' = [run EXCEPT ![r] = AfterResourceQuery(
                       [rr EXCEPT !.resourceQueries = @ + 1, !.resourceAcc = @ \o found])]
    /\ UNCHANGED <<matchesTable, now, nextUuid, published, sosStatus, maxMatchesEnv, call, stats, post, probe>>

\* the query made for requiredResources[idx] fails: logged, next type
ResourceQueryFail(r) ==
    /\ run[r].pc = "resources"
    /\ LET rr == run[r]
       IN  run' = [run EXCEPT ![r] = AfterResourceQuery(
                       [rr EXCEPT !.resourceQueries = @ + 1, !.resourceFailures =
                            Append(@, RequiredResources(rr.sosData)[rr.idx])])]
    /\ UNCHANGED <<matchesTable, now, nextUuid, published, sosStatus, maxMatchesEnv, call, stats, post, probe>>

\* the matches the two save loops walk through, skill matches first
ToSave(rr) == rr.skillMatches \o rr.resourceMatches

\* the end of one iteration of the save loops: next INSERT, or the status report
AfterSave(rr) ==
    IF rr.idx < Len(ToSave(rr))
    THEN [rr EXCEPT !.idx = @ + 1]
    ELSE [rr EXCEPT !.pc = "status", !.idx = 0]

\* a faulty SaveOk, to test the claims against: no second row for the same request, volunteer, skill and resource
SaveOkDeduplicating(r) ==
    /\ run[r].pc = "save"
    /\ LET rr == run[r]
           match == ToSave(rr)[rr.idx]
           row == RowOf(nextUuid, rr.sosData.requestId, match, now)
           same(old) == /\ old.request_id = row.request_id
                        /\ old.volunteer_id = row.volunteer_id
                        /\ old.skill_id = row.skill_id
                        /\ old.resource_id = row.resource_id
       IN  /\ InsertAllowed(matchesTable, row)
           /\ matchesTable' = IF \E old \in matchesTable : same(old)
                               THEN matchesTable ELSE matchesTable \cup {row}
           /\ run' = [run EXCEPT ![r] = AfterSave(
                          [rr EXCEPT !.savedMatches =
                               Append(@, [matchId |-> nextUuid] @@ match)])]
    /\ nextUuid' = nextUuid + 1
    /\ UNCHANGED <<now, published, sosStatus, maxMatchesEnv, call, stats, post, probe>>

\* saveMatch / saveResourceMatch: the INSERT of ToSave[idx] succeeds
SaveOk(r) ==
    /\ run[r].pc = "save"
    /\ LET rr == run[r]
           match == ToSave(rr)[rr.idx]
           row == RowOf(nextUuid, rr.sosData.requestId, match, now)
       IN  /\ InsertAllowed(matchesTable, row)
           /\ matchesTable' = matchesTable \cup {row}
           /\ run' = [run EXCEPT ![r] = AfterSave(
                          [rr EXCEPT !.savedMatches =
                               Append(@, [matchId |-> nextUuid] @@ match)])]
    /\ nextUuid' = nextUuid + 1
    /\ UNCHANGED <<now, published, sosStatus, maxMatchesEnv, call, stats, post, probe>>

\* a faulty SaveFail, to test the claims against: the error is logged and the loop goes on
SaveFailSwallowed(r, store) ==
    /\ run[r].pc = "save"
    /\ LET rr == run[r]
           match == ToSave(rr)[rr.idx]
           row == RowOf(nextUuid, rr.sosData.requestId, match, now)
       IN  /\ store \/ ~InsertAllowed(matchesTable, row)
           /\ run' = [run EXCEPT ![r] = AfterSave([rr EXCEPT !.error = "insert"])]
    /\ nextUuid' = nextUuid + 1
    /\ UNCHANGED <<matchesTable, now, published, sosStatus, maxMatchesEnv, call, stats, post, probe>>

\* the INSERT of ToSave[idx] fails (a violated constraint when store is FALSE,
\* else the store itself): the error is rethrown up to the caller of the run
SaveFail(r, store) ==
    /\ run[r].pc = "save"
    /\ LET rr == run[r]
           match == ToSave(rr)[rr.idx]
           row == RowOf(nextUuid, rr.sosData.requestId, match, now)
       IN  /\ store \/ ~InsertAllowed(matchesTable, row)
           /\ run' = [run EXCEPT ![r] = [rr EXCEPT !.pc = "failed", !.error = "insert"]]
    /\ nextUuid' = nextUuid + 1
    /\ UNCHANGED <<matchesTable, now, published, sosStatus, maxMatchesEnv, call, stats, post, probe>>

\* a faulty CreatedEvent, to test the claims against: the owner of a resource is not looked at
CreatedEventVolunteerOnly(match, requestId) ==
    [queue |-> "notifications.send", event |-> "match.created",
     data |-> [matchId      |-> match.matchId,
               requestId    |-> requestId,
               volunteerId  |-> IF "volunteerId" \in DOMAIN match
                                THEN match.volunteerId ELSE NULL,
               skillType    |-> IF "skillType" \in DOMAIN match
                                THEN match.skillType ELSE NULL,
               resourceType |-> IF "resourceType" \in DOMAIN match
                                THEN match.resourceType ELSE NULL]]

\* the message published for one saved match
CreatedEvent(match, requestId) ==
    [queue |-> "notifications.send", event |-> "match.created",
     data |-> [matchId      |-> match.matchId,
               requestId    |-> requestId,
               volunteerId  |-> OrElse(IF "volunteerId" \in DOMAIN match
                                       THEN match.volunteerId ELSE NULL,
                                       IF "ownerId" \in DOMAIN match
                                       THEN match.ownerId ELSE NULL),
               skillType    |-> IF "skillType" \in DOMAIN match
                                THEN match.skillType ELSE NULL,
               resourceType |-> IF "resourceType" \in DOMAIN match
                                THEN match.resourceType ELSE NULL]]

\* the notification loop over savedMatches
CreatedEvents(savedMatches, requestId) ==
    [i \in 1..Len(savedMatches) |-> CreatedEvent(savedMatches[i], requestId)]

\* matches.filter((m) => m.skillType) and matches.filter((m) => m.resourceType)
HasSkillType(m) == "skillType" \in DOMAIN m
HasResourceType(m) == "resourceType" \in DOMAIN m

\* what POST /match answers when matchRequest has returned (matchedAt left out)
MatchResponse(requestId, matches) ==
    [code |-> 200, requestId |-> requestId,
     matches |-> SelectSeq(matches, HasSkillType),
     resourceMatches |-> SelectSeq(matches, HasResourceType)]

\* a faulty StatusReport, to test the claims against: a failed report is rethrown
StatusReportFatal(r, ok) ==
    /\ run[r].pc = "status"
    /\ LET rr == run[r]
       IN  /\ sosStatus' = IF ok THEN [sosStatus EXCEPT ![rr.sosData.requestId] = "matched"]
                           ELSE sosStatus
           /\ published' = IF ok THEN published \o CreatedEvents(rr.savedMatches,
                                                                 rr.sosData.requestId)
                           ELSE published
           /\ run' = [run EXCEPT ![r] =
                          IF ok
                          THEN [rr EXCEPT !.pc = "done", !.statusReport = "ok",
                                          !.statusAttempts = @ + 1]
                          ELSE [rr EXCEPT !.pc = "failed", !.statusReport = "failed",
                                          !.statusAttempts = @ + 1, !.error = "status"]]
    /\ UNCHANGED <<matchesTable, now, nextUuid, maxMatchesEnv, call, stats, post, probe>>

\* the status report is answered (ok) or fails (logged); then, without another
\* await, the notifications are published and the saved matches returned, to
\* the queue consumer or to the route POST /match, which answers 200
StatusReport(r, ok) ==
    /\ run[r].pc = "status"
    /\ LET rr == run[r]
       IN  /\ sosStatus' = IF ok THEN [sosStatus EXCEPT ![rr.sosData.requestId] = "matched"]
                           ELSE sosStatus
           /\ published' = published \o CreatedEvents(rr.savedMatches, rr.sosData.requestId)
           /\ run' = [run EXCEPT ![r] = [rr EXCEPT !.pc = "done",
                          !.statusReport = IF ok THEN "ok" ELSE "failed",
                          !.statusAttempts = @ + 1,
                          !.response = IF rr.via = "post"
                                       THEN MatchResponse(rr.sosData.requestId, rr.savedMatches)
                                       ELSE NoResponse]]
    /\ UNCHANGED <<matchesTable, now, nextUuid, maxMatchesEnv, call, stats, post, probe>>

-----------------------------------------------------------------------------
(* The lifecycle routes: one action for the UPDATE, one for what follows it *)

FreeCall ==
    [pc |-> "free", op |-> "none", matchId |-> NoSuchMatch, volunteerId |-> NULL,
     reason |-> NULL, rows |-> <<>>, code |-> 0]

\* the rows of a set, as the sequence a query returns (match_id is the key)
RECURSIVE RowsOf(_)
RowsOf(rowSet) ==
    IF rowSet = {} THEN <<>>
    ELSE LET first == CHOOSE x \in rowSet : \A y \in rowSet : x.match_id <= y.match_id
         IN  <<first>> \o RowsOf(rowSet \ {first})

\* UPDATE matches SET ... WHERE ... RETURNING *, for the accept route
AcceptUpdate(table, matchId, volunteerId, ts) ==
    {IF AcceptWhere(row, matchId, volunteerId) THEN AcceptSet(row, ts) ELSE row : row \in table}

\* UPDATE matches SET ... WHERE ... RETURNING *, for the reject route
RejectUpdate(table, matchId, volunteerId, reason, ts) ==
    {IF RejectWhere(row, matchId, volunteerId) THEN RejectSet(row, reason, ts) ELSE row :
        row \in table}

\* POST /matches/:matchId/accept up to the answer of the store
AcceptQuery(c, matchId, volunteerId) ==
    /\ call[c].pc = "free"
    /\ \A earlier \in 1..(c - 1) : call[earlier].pc # "free"
    /\ matchesTable' = AcceptUpdate(matchesTable, matchId, volunteerId, now)
    /\ call' = [call EXCEPT ![c] = [FreeCall EXCEPT !.pc = "awaiting", !.op = "accept",
                   !.matchId = matchId, !.volunteerId = volunteerId,
                   !.rows = RowsOf({AcceptSet(row, now) : row \in
                               {x \in matchesTable : AcceptWhere(x, matchId, volunteerId)}})]]
    /\ UNCHANGED <<now, nextUuid, published, sosStatus, maxMatchesEnv, run, stats, post, probe>>

\* the message published for an accepted match
AcceptedEvent(matchId, match, volunteerId) ==
    [queue |-> "sos.requests", event |-> "match.accepted",
     data |-> [matchId |-> matchId, requestId |-> match.request_id,
               volunteerId |-> volunteerId]]

\* the accept route after the store answered: 404, or publish and 200
AcceptRespond(c) ==
    /\ call[c].pc = "awaiting"
    /\ call[c].op = "accept"
    /\ IF Len(call[c].rows) = 0
       THEN /\ call' = [call EXCEPT ![c].pc = "done", ![c].code = 404]
            /\ UNCHANGED published
       ELSE /\ published' = Append(published,
                   AcceptedEvent(call[c].matchId, call[c].rows[1], call[c].volunteerId))
            /\ call' = [call EXCEPT ![c].pc = "done", ![c].code = 200]
    /\ UNCHANGED <<matchesTable, now, nextUuid, sosStatus, maxMatchesEnv, run, stats, post, probe>>

\* POST /matches/:matchId/reject up to the answer of the store
RejectQuery(c, matchId, volunteerId, reason) ==
    /\ call[c].pc = "free"
    /\ \A earlier \in 1..(c - 1) : call[earlier].pc # "free"
    /\ matchesTable' = RejectUpdate(matchesTable, matchId, volunteerId, reason, now)
    /\ call' = [call EXCEPT ![c] = [FreeCall EXCEPT !.pc = "awaiting", !.op = "reject",
                   !.matchId = matchId, !.volunteerId = volunteerId, !.reason = reason,
                   !.rows = RowsOf({RejectSet(row, reason, now) : row \in
                               {x \in matchesTable : RejectWhere(x, matchId, volunteerId)}})]]
    /\ UNCHANGED <<now, nextUuid, published, sosStatus, maxMatchesEnv, run, stats, post, probe>>

\* the reject route after the store answered: 404 or 200
RejectRespond(c) ==
    /\ call[c].pc = "awaiting"
    /\ call[c].op = "reject"
    /\ call' = [call EXCEPT ![c].pc = "done",
                            ![c].code = IF Len(call[c].rows) = 0 THEN 404 ELSE 200]
    /\ UNCHANGED <<matchesTable, now, nextUuid, published, sosStatus, maxMatchesEnv, run, stats, post, probe>>

-----------------------------------------------------------------------------
(* GET /stats: one action per query; the last one also builds the answer *)

\* the seconds between two ticks of the clock
SecondsPerTick == 3725

NoStats ==
    [totalMatches |-> NULLN, acceptedMatches |-> NULLN, rejectedMatches |-> NULLN,
     pendingMatches |-> NULLN, averageMatchTime |-> NULL]

\* The state of the request: pc names the query it is about to make, and
\* total, accepted, rejected, pending hold the results of the queries made.
IdleStats ==
    [pc |-> "idle", total |-> NULLN, accepted |-> NULLN, rejected |-> NULLN,
     pending |-> NULLN, response |-> NoStats]

\* SELECT COUNT(*) FROM matches
CountAll(table) == Cardinality(table)

\* SELECT COUNT(*) FROM matches WHERE status = $status
CountStatus(table, status) == Cardinality({row \in table : row.status = status})

\* the sum of EXTRACT(EPOCH FROM (accepted_at - created_at)) over a set of rows
RECURSIVE SumAcceptSeconds(_)
SumAcceptSeconds(rowSet) ==
    IF rowSet = {} THEN 0
    ELSE LET row == CHOOSE x \in rowSet : TRUE
         IN  (row.accepted_at - row.created_at) * SecondsPerTick
             + SumAcceptSeconds(rowSet \ {row})

\* SELECT AVG(...) FROM matches WHERE accepted_at IS NOT NULL, as the fraction
\* num / den; den = 0 stands for the NULL that AVG gives over no row
AverageSeconds(table) ==
    LET rowSet == {row \in table : row.accepted_at # NoTime}
    IN  [num |-> SumAcceptSeconds(rowSet), den |-> Cardinality(rowSet)]

\* String(n).padStart(2, '0')
PadStart2(n) == IF Len(ToString(n)) < 2 THEN "0" \o ToString(n) ELSE ToString(n)

\* formatDuration, on the fraction seconds.num / seconds.den
formatDuration(seconds) ==
    LET hours   == seconds.num \div (seconds.den * 3600)
        minutes == (seconds.num % (seconds.den * 3600)) \div (seconds.den * 60)
        secs    == (seconds.num % (seconds.den * 60)) \div seconds.den
    IN  PadStart2(hours) \o ":" \o PadStart2(minutes) \o ":" \o PadStart2(secs)

\* avg_seconds ? formatDuration(avg_seconds) : '00:00:00' (an average of zero
\* seconds is formatted or replaced, to the same text)
AverageMatchTime(avg) == IF avg.den = 0 THEN "00:00:00" ELSE formatDuration(avg)

\* the request arrives and the first query counts all rows
StatsTotal ==
    /\ stats.pc \in {"idle", "done"}
    /\ stats' = [IdleStats EXCEPT !.pc = "accepted", !.total = CountAll(matchesTable)]
    /\ UNCHANGED <<matchesTable, now, nextUuid, published, sosStatus, maxMatchesEnv, run, call, post, probe>>

StatsAccepted ==
    /\ stats.pc = "accepted"
    /\ stats' = [stats EXCEPT !.pc = "rejected",
                              !.accepted = CountStatus(matchesTable, "accepted")]
    /\ UNCHANGED <<matchesTable, now, nextUuid, published, sosStatus, maxMatchesEnv, run, call, post, probe>>

StatsRejected ==
    /\ stats.pc = "rejected"
    /\ stats' = [stats EXCEPT !.pc = "pending",
                              !.rejected = CountStatus(matchesTable, "rejected")]
    /\ UNCHANGED <<matchesTable, now, nextUuid, published, sosStatus, maxMatchesEnv, run, call, post, probe>>

StatsPending ==
    /\ stats.pc = "pending"
    /\ stats' = [stats EXCEPT !.pc = "average",
                              !.pending = CountStatus(matchesTable, "pending")]
    /\ UNCHANGED <<matchesTable, now, nextUuid, published, sosStatus, maxMatchesEnv, run, call, post, probe>>

\* the last query and res.json(stats)
StatsAverage ==
    /\ stats.pc = "average"
    /\ stats' = [stats EXCEPT !.pc = "done", !.response =
                    [totalMatches     |-> stats.total,
                     acceptedMatches  |-> stats.accepted,
                     rejectedMatches  |-> stats.rejected,
                     pendingMatches   |-> stats.pending,
                     averageMatchTime |-> AverageMatchTime(AverageSeconds(matchesTable))]]
    /\ UNCHANGED <<matchesTable, now, nextUuid, published, sosStatus, maxMatchesEnv, run, call, post, probe>>

-----------------------------------------------------------------------------
(* POST /match: validateMatchRequest, then matchRequest *)

\* Bodies are records; a field the body lacks is outside the record's domain.
\* The bodies of the model hold no key the schema does not name and no value
\* of another type than the schema's.
ValidBody ==
    [requestId |-> "req-1", disasterId |-> "dis-1", disasterType |-> "fire",
     urgency |-> "medium", requiredSkills |-> <<"medic">>,
     requiredResources |-> <<"boat">>, location |-> Origin, radius |-> 20]
BodyNoLatitude ==
    [requestId |-> "req-1", disasterId |-> "dis-1", urgency |-> "medium",
     requiredSkills |-> <<"medic">>, requiredResources |-> <<"boat">>,
     location |-> [longitude |-> 0]]
BodyManyFaults ==
    [disasterId |-> "dis-1", disasterType |-> "volcano", urgency |-> "urgent",
     requiredSkills |-> <<"medic">>, location |-> [longitude |-> 0], radius |-> 0]
BodyBare == [requestId |-> "req-1"]

PostBodies == {ValidBody, BodyNoLatitude, BodyManyFaults, BodyBare}

\* .required()
RequiredRule(object, key, label) ==
    IF key \in DOMAIN object THEN <<>> ELSE << "\"" \o label \o "\" is required" >>

\* .valid(...) on an optional or required string
ValidRule(object, key, allowed, text) ==
    IF key \in DOMAIN object /\ object[key] \notin allowed
    THEN << "\"" \o key \o "\" must be one of [" \o text \o "]" >>
    ELSE <<>>

\* Joi.number().positive().optional()
PositiveRule(object, key) ==
    IF key \in DOMAIN object /\ object[key] <= 0
    THEN << "\"" \o key \o "\" must be a positive number" >>
    ELSE <<>>

\* the rules of location: the object is required, and so are its two numbers
LocationRule(body) ==
    IF "location" \notin DOMAIN body THEN << "\"location\" is required" >>
    ELSE RequiredRule(body.location, "latitude", "location.latitude")
         \o RequiredRule(body.location, "longitude", "location.longitude")

\* a faulty ValidationDetails, to test the claims against: validation stops at the first error
ValidationDetailsAbortEarly(body) ==
    LET all == RequiredRule(body, "requestId", "requestId")
               \o RequiredRule(body, "disasterId", "disasterId")
               \o ValidRule(body, "disasterType",
                            {"flood", "earthquake", "cyclone", "fire", "tsunami", "landslide"},
                            "flood, earthquake, cyclone, fire, tsunami, landslide")
               \o LocationRule(body)
               \o RequiredRule(body, "urgency", "urgency")
               \o ValidRule(body, "urgency", {"critical", "high", "medium", "low"},
                            "critical, high, medium, low")
               \o PositiveRule(body, "radius")
    IN  IF all = <<>> THEN <<>> ELSE <<Head(all)>>

\* matchRequestSchema.validate(req.body, { abortEarly: false }): the messages
\* of error.details, in the order of the schema's keys; <<>> when there is no error
ValidationDetails(body) ==
    RequiredRule(body, "requestId", "requestId")
    \o RequiredRule(body, "disasterId", "disasterId")
    \o ValidRule(body, "disasterType",
                 {"flood", "earthquake", "cyclone", "fire", "tsunami", "landslide"},
                 "flood, earthquake, cyclone, fire, tsunami, landslide")
    \o LocationRule(body)
    \o RequiredRule(body, "urgency", "urgency")
    \o ValidRule(body, "urgency", {"critical", "high", "medium", "low"},
                 "critical, high, medium, low")
    \o PositiveRule(body, "radius")

NoPost == [body |-> [requestId |-> NULL], code |-> 0, error |-> [details |-> <<>>]]

\* the body of the 400 answer
ValidationError(details) ==
    [code |-> "VALIDATION_ERROR", message |-> "Invalid request data", details |-> details]

\* matchRequest: the six fields handed to processSOSRequest
matchRequest(requestData) ==
    [key \in DOMAIN requestData \cap {"requestId", "disasterId", "urgency", "requiredSkills",
                                      "requiredResources", "location"} |-> requestData[key]]

\* POST /match arrives: the middleware answers 400, or calls next() and the
\* route calls matchRequest
PostMatch(r, body) ==
    IF ValidationDetails(body) # <<>>
    THEN /\ post' = [body |-> body, code |-> 400,
                     error |-> ValidationError(ValidationDetails(body))]
         /\ UNCHANGED <<matchesTable, now, nextUuid, published, sosStatus, maxMatchesEnv, run, call, stats, probe>>
    ELSE /\ run[r].pc = "idle"
         /\ \A earlier \in 1..(r - 1) : run[earlier].pc # "idle"
         /\ run' = [run EXCEPT ![r] = [IdleRun EXCEPT !.pc = "lookup", !.via = "post",
                                                      !.sosData = matchRequest(body)]]
         /\ UNCHANGED <<matchesTable, now, nextUuid, published, sosStatus, maxMatchesEnv, call, stats, post, probe>>

-----------------------------------------------------------------------------
(* The scoring of one candidate, applied to inputs of every kind *)

\* a candidate's trustScore lies in 0..MaxTrust, or the candidate carries none
MaxTrust == 10
TrustScores == (0..MaxTrust) \cup {NULLN}
CertificationLevels == {"none", "intermediate", "expert"}
Urgencies == {"critical", "high", "medium", "low"}
Distances == 0..MaxDistance

\* a verified, available candidate km kilometres from the request
Candidate(trustScore, certificationLevel, km) ==
    [userId |-> "vol-1", skillId |-> "sk-1", skillType |-> "medic",
     availability |-> "available", verified |-> TRUE, trustScore |-> trustScore,
     certificationLevel |-> certificationLevel, location |-> At(km)]

NoMatch ==
    [volunteerId |-> NULL, skillId |-> NULL, skillType |-> NULL, matchScore |-> NULLN,
     distance |-> NULLN, trustScore |-> NULLN, availability |-> NULL]

NoProbe == [pc |-> "none", skill |-> Candidate(NULLN, "none", 0), urgency |-> "low",
            match |-> NoMatch]

\* the candidates and urgencies the scoring is applied to
ProbeInputs ==
    {[pc |-> "input", skill |-> Candidate(t, level, km), urgency |-> u, match |-> NoMatch] :
        t \in TrustScores, level \in CertificationLevels, km \in Distances, u \in Urgencies}

\* the body of the loop over filteredSkills, up to the threshold test
ScoreCandidate ==
    /\ probe.pc = "input"
    /\ probe' = [probe EXCEPT !.pc = "scored",
                              !.match = SkillMatch(probe.skill, Origin, probe.urgency)]
    /\ UNCHANGED <<matchesTable, now, nextUuid, published, sosStatus, maxMatchesEnv, run, call, stats, post>>

-----------------------------------------------------------------------------
(* The system *)

\* time passes
Tick ==
    /\ now < MaxTime
    /\ now' = now + 1
    /\ UNCHANGED <<matchesTable, nextUuid, published, sosStatus, maxMatchesEnv, run, call, stats, post, probe>>

\* the match ids a caller may name: those in the table and one that is not
KnownMatchIds == {row.match_id : row \in matchesTable} \cup {NoSuchMatch}

\* the service after startServer, started with a given MAX_MATCHES_PER_REQUEST
\* and room for the runs of slots
InitWith(settings, slots, probes) ==
    /\ matchesTable = {}
    /\ now = 1
    /\ nextUuid = 1
    /\ published = <<>>
    /\ sosStatus = [q \in RequestIds |-> "pending"]
    /\ maxMatchesEnv \in settings
    /\ run = [r \in slots |-> IdleRun]
    /\ call = [c \in Calls |-> FreeCall]
    /\ stats = IdleStats
    /\ post = NoPost
    /\ probe \in probes

\* started without MAX_MATCHES_PER_REQUEST
Init == InitWith({NULLN}, Runs, {NoProbe})

\* started with any of the settings
PipelineInit == InitWith(MaxMatchesSettings, Runs, {NoProbe})

\* the steps of the runs in which every collaborator and the store answer
RunOkNext(requests, types, skillAnswers, resourceAnswers) ==
    \/ \E r \in DOMAIN run, q \in requests : StartRun(r, q)
    \/ \E r \in DOMAIN run, t \in types : LookupOk(r, t)
    \/ \E r \in DOMAIN run, skills \in skillAnswers : SkillQueryOk(r, skills)
    \/ \E r \in DOMAIN run, resources \in resourceAnswers : ResourceQueryOk(r, resources)
    \/ \E r \in DOMAIN run : SaveOk(r)
    \/ \E r \in DOMAIN run : StatusReport(r, TRUE)

\* the steps of the runs in which a collaborator or the store fails
RunFailNext ==
    \/ \E r \in DOMAIN run : LookupFail(r)
    \/ \E r \in DOMAIN run : SkillQueryFail(r)
    \/ \E r \in DOMAIN run : ResourceQueryFail(r)
    \/ \E r \in DOMAIN run, store \in BOOLEAN : SaveFail(r, store)
    \/ \E r \in DOMAIN run : StatusReport(r, FALSE)

\* the steps of the lifecycle routes
CallNext ==
    \/ \E c \in Calls, m \in KnownMatchIds, v \in Volunteers \cup {NULL} :
          AcceptQuery(c, m, v)
    \/ \E c \in Calls : AcceptRespond(c)
    \/ \E c \in Calls, m \in KnownMatchIds, v \in Volunteers \cup {NULL}, why \in Reasons :
          RejectQuery(c, m, v, why)
    \/ \E c \in Calls : RejectRespond(c)

\* the lifecycle routes at work on the matches of runs that meet no failure
Next ==
    \/ RunOkNext(LifecycleRequests, {"flood"}, LifecycleSkillAnswers, LifecycleResourceAnswers)
    \/ CallNext
    \/ Tick

Spec == Init /\ [][Next]_vars

\* the pipeline alone, on every request, every answer and every failure
PipelineNext ==
    \/ RunOkNext(Requests, DisasterTypes, SkillResponses, ResourceResponses)
    \/ RunFailNext
    \/ Tick

SpecPipeline == PipelineInit /\ [][PipelineNext]_vars

\* the steps of GET /stats
StatsNext ==
    \/ StatsTotal
    \/ StatsAccepted
    \/ StatsRejected
    \/ StatsPending
    \/ StatsAverage

\* GET /stats while matches are created, accepted and rejected
StatsSystemNext ==
    \/ RunOkNext(LifecycleRequests, {"flood"}, LifecycleSkillAnswers, LifecycleResourceAnswers)
    \/ CallNext
    \/ StatsNext
    \/ Tick

SpecStats == Init /\ [][StatsSystemNext]_vars

\* started with room for repeated triggers
TriggersInit == InitWith({NULLN}, Repeats, {NoProbe})

\* queue messages and POST /match bodies, also for a request already matched
TriggersNext ==
    \/ RunOkNext(LifecycleRequests, {"flood"}, LifecycleSkillAnswers, LifecycleResourceAnswers)
    \/ \E r \in DOMAIN run, body \in PostBodies : PostMatch(r, body)
    \/ Tick

SpecTriggers == TriggersInit /\ [][TriggersNext]_vars

\* the scoring alone, on every input
ScoreInit == InitWith({NULLN}, Runs, ProbeInputs)

ScoreNext == ScoreCandidate

SpecScore == ScoreInit /\ [][ScoreNext]_vars

-----------------------------------------------------------------------------
(* Lifecycle claims *)

\* the row with a given match_id before and after a step
RowWithId(table, matchId) == CHOOSE row \in table : row.match_id = matchId
HasRow(table, matchId) == \E row \in table : row.match_id = matchId

\* call c is a lifecycle request whose UPDATE the store executes in this step
Queries(c) == call[c].pc = "free" /\ call'[c].pc = "awaiting"

\* call c is answered in this step
Responds(c) == call[c].pc = "awaiting" /\ call'[c].pc = "done"

\* C1: a match that is accepted or rejected stays as it is: a later Accept or
\* Reject naming it finds no row (and so is answered 404) and its row is never
\* changed again; a status only ever changes from pending to accepted or
\* from pending to rejected.
C1_TerminalStatus ==
    [][ /\ \A row \in matchesTable :
              row.status \in {"accepted", "rejected"} => row \in matchesTable'
        /\ \A c \in Calls :
              ( /\ Queries(c)
                /\ HasRow(matchesTable, call'[c].matchId)
                /\ RowWithId(matchesTable, call'[c].matchId).status # "pending" )
              => call'[c].rows = <<>>
        /\ \A row \in matchesTable :
              \A after \in matchesTable' :
                 (after.match_id = row.match_id /\ after.status # row.status)
                 => (row.status = "pending" /\ after.status \in {"accepted", "rejected"})
      ]_vars

\* the call names an existing match together with its stored volunteer
NamesOwnedMatch(table, matchId, volunteerId) ==
    \E row \in table : row.match_id = matchId /\ row.volunteer_id = volunteerId

\* C2: an Accept or Reject whose volunteerId is not the one stored on the
\* match, or whose matchId is in no row, changes no row, gets no row back, is
\* answered 404 and publishes nothing.
C2_OwnershipCheck ==
    [][ \A c \in Calls :
          /\ ( Queries(c) /\ ~NamesOwnedMatch(matchesTable, call'[c].matchId,
                                              call'[c].volunteerId) )
             => ( matchesTable' = matchesTable /\ call'[c].rows = <<>>
                  /\ published' = published )
          /\ ( Responds(c) /\ ~NamesOwnedMatch(matchesTable, call[c].matchId,
                                               call[c].volunteerId) )
             => ( call'[c].code = 404 /\ published' = published
                  /\ matchesTable' = matchesTable )
      ]_vars

\* a call naming an existing match with another volunteer's id was answered 404
C2_Witness ==
    \E c \in Calls :
       /\ call[c].pc = "done"
       /\ call[c].code = 404
       /\ call[c].volunteerId # NULL
       /\ \E row \in matchesTable :
             row.match_id = call[c].matchId /\ row.volunteer_id # call[c].volunteerId

\* C3: of two Accept or Reject calls the owner makes on one match, exactly
\* one gets the row back, whatever the interleaving: the first UPDATE takes
\* the match out of pending, the other call finds zero rows and is answered 404.
C3_OneCallWins ==
    \A c1, c2 \in Calls :
       ( /\ c1 # c2
         /\ call[c1].pc # "free" /\ call[c2].pc # "free"
         /\ call[c1].matchId = call[c2].matchId
         /\ NamesOwnedMatch(matchesTable, call[c1].matchId, call[c1].volunteerId)
         /\ NamesOwnedMatch(matchesTable, call[c2].matchId, call[c2].volunteerId) )
       => /\ (call[c1].rows # <<>>) # (call[c2].rows # <<>>)
          /\ (call[c2].pc = "done" /\ call[c2].rows = <<>>) => call[c2].code = 404

\* C4: no row ever holds both an acceptance and a rejection timestamp, and
\* each of the two is written at most once.
C4_ExclusiveTimestamps ==
    \A row \in matchesTable :
       /\ ~(row.accepted_at # NoTime /\ row.rejected_at # NoTime)
       /\ row.status = "pending" => (row.accepted_at = NoTime /\ row.rejected_at = NoTime)
       /\ row.rejection_reason # NULL => row.rejected_at # NoTime

\* C5: an Accept that gets a row back found the match pending and left it
\* accepted with acceptedAt and updatedAt set to the time of the call; when it
\* is answered, exactly one match.accepted message {matchId, requestId,
\* volunteerId} is published, its requestId being the one stored on the
\* match; an Accept answered 404 publishes nothing, so no match.accepted
\* message exists for a match the store never showed as accepted.
C5_AcceptPublishes ==
    [][ \A c \in Calls :
          /\ ( Queries(c) /\ call'[c].op = "accept" /\ call'[c].rows # <<>> )
             => ( /\ RowWithId(matchesTable, call'[c].matchId).status = "pending"
                  /\ RowWithId(matchesTable', call'[c].matchId).status = "accepted"
                  /\ RowWithId(matchesTable', call'[c].matchId).accepted_at = now
                  /\ RowWithId(matchesTable', call'[c].matchId).updated_at = now )
          /\ ( Responds(c) /\ call[c].op = "accept" /\ call[c].rows # <<>> )
             => ( /\ call'[c].code = 200
                  /\ published' = Append(published,
                        [queue |-> "sos.requests", event |-> "match.accepted",
                         data |-> [matchId |-> call[c].matchId,
                                   requestId |-> RowWithId(matchesTable,
                                                    call[c].matchId).request_id,
                                   volunteerId |-> call[c].volunteerId]]) )
          /\ ( Responds(c) /\ ~(call[c].op = "accept" /\ call[c].rows # <<>>) )
             => published' = published
      ]_vars

-----------------------------------------------------------------------------
(* Pipeline claims *)

SavedIds(rr) == {rr.savedMatches[i].matchId : i \in 1..Len(rr.savedMatches)}

\* the match.created messages published so far for a match
CreatedEventsFor(matchId) ==
    {k \in 1..Len(published) :
        published[k].event = "match.created" /\ published[k].data.matchId = matchId}

\* findSkillMatches / findResourceMatches of the run have returned
SkillsDone(rr) == rr.pc \in {"resources", "save", "status", "done", "failed"}
ResourcesDone(rr) == rr.pc \in {"save", "status", "done", "failed"}

\* C6: a failed INSERT ends the run with the error thrown to its caller: the
\* match that failed and those after it are not persisted, the status
\* "matched" is not reported, no match.created message is published for the
\* run, and the rows inserted before the failure are still in the table.
C6_PersistFailureAborts ==
    \A r \in Runs :
       run[r].error # NULL =>
          /\ run[r].pc = "failed"
          /\ run[r].error = "insert"
          /\ run[r].statusReport = "none"
          /\ Len(run[r].savedMatches) = run[r].idx - 1
          /\ Len(run[r].savedMatches) < Len(ToSave(run[r]))
          /\ \A id \in SavedIds(run[r]) :
                HasRow(matchesTable, id) /\ CreatedEventsFor(id) = {}
          /\ Cardinality(SavedIds(run[r])) = Len(run[r].savedMatches)
          /\ \A row \in matchesTable :
                \E q \in Runs : row.match_id \in SavedIds(run[q])

\* a run failed at its second or later INSERT and the earlier rows are kept
C6_Witness ==
    \E r \in Runs :
       /\ run[r].pc = "failed"
       /\ Len(run[r].savedMatches) >= 1
       /\ Len(ToSave(run[r])) >= 3
       /\ \A id \in SavedIds(run[r]) : HasRow(matchesTable, id)

\* C7: a failed registry query leaves no candidate of its tag (type) in the
\* matcher's list and nothing else: a query is issued for every tag (type) of
\* the search, the run does not fail in a matcher, and the matcher's result
\* is non-empty whenever some tag (type) yielded a qualifying candidate.
C7_ContinueOnQueryFailure ==
    \A r \in Runs :
       LET rr == run[r]
       IN  /\ rr.pc \in {"skills", "resources"} => rr.error = NULL
           /\ rr.pc = "skills" => rr.skillQueries = rr.idx - 1
           /\ rr.pc = "resources" => rr.resourceQueries = rr.idx - 1
           /\ SkillsDone(rr) =>
                 /\ rr.skillQueries = Len(rr.skillsToFind)
                 /\ \A i \in 1..Len(rr.skillFailures) : \A j \in 1..Len(rr.skillAcc) :
                       rr.skillAcc[j].skillType # rr.skillFailures[i]
                 /\ rr.skillAcc # <<>> => rr.skillMatches # <<>>
           /\ ResourcesDone(rr) =>
                 /\ rr.resourceQueries = Len(RequiredResources(rr.sosData))
                 /\ \A i \in 1..Len(rr.resourceFailures) : \A j \in 1..Len(rr.resourceAcc) :
                       rr.resourceAcc[j].resourceType # rr.resourceFailures[i]
                 /\ rr.resourceAcc # <<>> => rr.resourceMatches # <<>>

\* in both matchers a query failed, a later one was still made and the result
\* holds the candidates of the other tags
C7_Witness ==
    \E r \in Runs :
       /\ ResourcesDone(run[r])
       /\ run[r].skillFailures # <<>>
       /\ run[r].skillFailures[1] = run[r].skillsToFind[1]
       /\ run[r].skillMatches # <<>>
       /\ run[r].resourceFailures # <<>>
       /\ run[r].resourceFailures[1] = RequiredResources(run[r].sosData)[1]
       /\ run[r].resourceMatches # <<>>

\* C8: after a failed disaster lookup the run goes on with the type "flood",
\* so with no required skills it searches boat_operator, swimmer, medic,
\* rescue_diver; after a successful lookup it uses the type the registry gave.
C8_LookupFallback ==
    \A r \in Runs :
       LET rr == run[r]
       IN  /\ rr.lookup = "failed" =>
                 /\ rr.pc \notin {"idle", "lookup"}
                 /\ rr.error \in {NULL, "insert"}
                 /\ rr.disasterType = "flood"
                 /\ RequiredSkills(rr.sosData) = <<>> =>
                       rr.skillsToFind = <<"boat_operator", "swimmer", "medic", "rescue_diver">>
           /\ rr.lookup = "ok" =>
                 /\ rr.disasterType = rr.lookupAnswer
                 /\ (RequiredSkills(rr.sosData) = <<>> /\ rr.lookupAnswer = "fire") =>
                       rr.skillsToFind = <<"firefighter", "electrician", "medic", "smoke_diver">>

\* a run whose lookup failed searched the flood skills and completed with matches
C8_Witness ==
    \E r \in Runs :
       /\ run[r].lookup = "failed"
       /\ RequiredSkills(run[r].sosData) = <<>>
       /\ run[r].pc = "done"
       /\ run[r].savedMatches # <<>>
       /\ \E i \in 1..Len(run[r].savedMatches) :
             "skillType" \in DOMAIN run[r].savedMatches[i]

\* C9: once a run has completed, every match it saved has its row in the
\* table and exactly one match.created message, which carries the row's
\* match id, the run's request id, the row's volunteer and its skill or
\* resource type; every match.created message names a row of the table, and
\* belongs to a run that had saved all its matches and attempted the status
\* report before publishing.
C9_CreatedEvents ==
    /\ \A r \in Runs :
          run[r].pc = "done" =>
             /\ Len(run[r].savedMatches) = Len(ToSave(run[r]))
             /\ \A id \in SavedIds(run[r]) :
                   /\ HasRow(matchesTable, id)
                   /\ Cardinality(CreatedEventsFor(id)) = 1
                   /\ \A k \in CreatedEventsFor(id) :
                         LET row == RowWithId(matchesTable, id)
                         IN  /\ row.request_id = run[r].sosData.requestId
                             /\ published[k].queue = "notifications.send"
                             /\ published[k].data =
                                   [matchId |-> id,
                                    requestId |-> run[r].sosData.requestId,
                                    volunteerId |-> row.volunteer_id,
                                    skillType |-> row.skill_type,
                                    resourceType |-> row.resource_type]
    /\ \A k \in 1..Len(published) :
          published[k].event = "match.created" =>
             /\ HasRow(matchesTable, published[k].data.matchId)
             /\ \E r \in Runs :
                   /\ published[k].data.matchId \in SavedIds(run[r])
                   /\ run[r].pc = "done"
                   /\ run[r].statusReport # "none"
                   /\ Len(run[r].savedMatches) = Len(ToSave(run[r]))

\* a completed run saved a skill match and a resource match and published for both
C9_Witness ==
    \E r \in Runs :
       /\ run[r].pc = "done"
       /\ \E i, j \in 1..Len(run[r].savedMatches) :
             /\ "skillType" \in DOMAIN run[r].savedMatches[i]
             /\ "resourceType" \in DOMAIN run[r].savedMatches[j]
       /\ \A id \in SavedIds(run[r]) : Cardinality(CreatedEventsFor(id)) = 1

\* the configured maximum of matches per request, 10 when not configured
ConfiguredMax == IF maxMatchesEnv = NULLN THEN 10 ELSE maxMatchesEnv

Count(seq, x) == Cardinality({i \in 1..Len(seq) : seq[i] = x})

\* C10: what findSkillMatches returns is the qualifying candidates ordered by
\* score, highest first, cut to the configured maximum N; what
\* findResourceMatches returns is the candidates ordered by distance, nearest
\* first, cut to N: at most N elements, each one a collected candidate, in
\* order, and no candidate left out ranks strictly better than a returned one.
C10_RankedAndCut ==
    \A r \in Runs :
       LET rr == run[r]
           sAcc == rr.skillAcc
           sRes == rr.skillMatches
           rAcc == rr.resourceAcc
           rRes == rr.resourceMatches
       IN  /\ SkillsDone(rr) =>
                 /\ Len(sRes) <= ConfiguredMax
                 /\ Len(sRes) = Min(ConfiguredMax, Len(sAcc))
                 /\ \A i, j \in 1..Len(sRes) :
                       i < j => sRes[i].matchScore >= sRes[j].matchScore
                 /\ \A i \in 1..Len(sRes) : Count(sRes, sRes[i]) <= Count(sAcc, sRes[i])
                 /\ \A j \in 1..Len(sAcc) :
                       Count(sRes, sAcc[j]) < Count(sAcc, sAcc[j]) =>
                          \A i \in 1..Len(sRes) : sRes[i].matchScore >= sAcc[j].matchScore
           /\ ResourcesDone(rr) =>
                 /\ Len(rRes) <= ConfiguredMax
                 /\ Len(rRes) = Min(ConfiguredMax, Len(rAcc))
                 /\ \A i, j \in 1..Len(rRes) :
                       i < j => rRes[i].distance <= rRes[j].distance
                 /\ \A i \in 1..Len(rRes) : Count(rRes, rRes[i]) <= Count(rAcc, rRes[i])
                 /\ \A j \in 1..Len(rAcc) :
                       Count(rRes, rAcc[j]) < Count(rAcc, rAcc[j]) =>
                          \A i \in 1..Len(rRes) : rRes[i].distance <= rAcc[j].distance

\* both matchers collected three candidates, not in rank order, and returned
\* the best two in rank order
C10_Witness ==
    \E r \in Runs :
       /\ ResourcesDone(run[r])
       /\ Len(run[r].skillAcc) = 3 /\ Len(run[r].skillMatches) = 2
       /\ run[r].skillAcc[2].matchScore < run[r].skillAcc[3].matchScore
       /\ run[r].skillAcc[2].matchScore < run[r].skillAcc[1].matchScore
       /\ Len(run[r].resourceAcc) = 3 /\ Len(run[r].resourceMatches) = 2
       /\ run[r].resourceAcc[1].distance > run[r].resourceAcc[2].distance
       /\ run[r].resourceAcc[1].distance > run[r].resourceAcc[3].distance

-----------------------------------------------------------------------------
(* Claims on the search, the scoring and the filter *)

\* the default skill tags of each disaster type, as the specification lists them
DefaultSkills(disasterType) ==
    CASE disasterType = "flood" -> <<"boat_operator", "swimmer", "medic", "rescue_diver">>
      [] disasterType = "earthquake" ->
            <<"rescuer", "structural_engineer", "medic", "heavy_lifting">>
      [] disasterType = "cyclone" ->
            <<"shelter_manager", "logistics", "medic", "evacuation_specialist">>
      [] disasterType = "fire" -> <<"firefighter", "electrician", "medic", "smoke_diver">>
      [] disasterType = "tsunami" -> <<"rescue_diver", "medic", "boat_operator", "swimmer">>
      [] disasterType = "landslide" ->
            <<"rescuer", "medic", "heavy_lifting", "structural_engineer">>
      [] OTHER -> <<>>

\* the run is past the disaster lookup
Resolved(rr) == rr.pc \notin {"idle", "lookup"}

\* C11: the tags findSkillMatches searches are the required skills when there
\* are any, else the default tags of the disaster type; one query is made per
\* tag and every collected candidate carries a searched tag; for an unknown
\* type and no required skill nothing is searched, no query is made and the
\* result is empty.
C11_SkillsSearched ==
    \A r \in Runs :
       LET rr == run[r]
           required == RequiredSkills(rr.sosData)
       IN  Resolved(rr) =>
              /\ required # <<>> => rr.skillsToFind = required
              /\ required = <<>> => rr.skillsToFind = DefaultSkills(rr.disasterType)
              /\ SkillsDone(rr) => rr.skillQueries = Len(rr.skillsToFind)
              /\ \A j \in 1..Len(rr.skillAcc) :
                    \E i \in 1..Len(rr.skillsToFind) :
                       rr.skillAcc[j].skillType = rr.skillsToFind[i]
              /\ ( required = <<>> /\ DefaultSkills(rr.disasterType) = <<>> ) =>
                    ( SkillsDone(rr) /\ rr.skillQueries = 0 /\ rr.skillMatches = <<>> )

\* a run for a request without required skills, in a disaster of unknown type,
\* made no skill query and went on to match resources
C11_Witness ==
    \E r \in Runs :
       /\ run[r].pc = "done"
       /\ run[r].lookupAnswer = "volcano"
       /\ RequiredSkills(run[r].sosData) = <<>>
       /\ run[r].skillQueries = 0
       /\ run[r].resourceQueries > 0

\* C13: for a candidate with a trust score from 0 to 10, at any distance of 0
\* or more, for every urgency and every certification level, the score
\* calculateMatchScore returns lies between 0 and 10.
C13_ScoreInRange ==
    ( /\ probe.pc = "scored"
      /\ probe.skill.trustScore \in 0..MaxTrust
      /\ probe.match.distance >= 0
      /\ probe.urgency \in {"critical", "high", "medium", "low"}
      /\ probe.skill.certificationLevel \in {"none", "intermediate", "expert"} )
    => ( probe.match.matchScore >= 0 /\ probe.match.matchScore <= 10 * ScoreScale )

\* the candidate with the highest score was scored: trust 10, no distance, a
\* critical request, an expert; and it scored 9.4
C13_Witness ==
    /\ probe.pc = "scored"
    /\ probe.skill.trustScore = MaxTrust
    /\ probe.match.distance = 0
    /\ probe.urgency = "critical"
    /\ probe.skill.certificationLevel = "expert"
    /\ 10 * probe.match.matchScore = 94 * ScoreScale

\* the trust score the reference formula uses: the candidate's own when it
\* carries one, 5.0 when it carries none
ReferenceTrust(skill) == IF skill.trustScore = NULLN THEN 5 ELSE skill.trustScore

\* min(10, (trust * 0.4 + max(0, 10 - (distance / maxRadius) * 10) * 0.3)
\*          * multiplier + bonus), in units of 1/ScoreScale
ReferenceScore(skill, distance, urgency) ==
    LET closeness  == IF distance >= 50 THEN 0
                      ELSE 10 * ScoreScale - (distance * 10 * ScoreScale) \div 50
        base       == (ReferenceTrust(skill) * ScoreScale * 4) \div 10 + (closeness * 3) \div 10
        multiplier == CASE urgency = "critical" -> 12 [] urgency = "high" -> 11 [] OTHER -> 10
        bonus      == CASE skill.certificationLevel = "expert" -> ScoreScale
                        [] skill.certificationLevel = "intermediate" -> ScoreScale \div 2
                        [] OTHER -> 0
        total      == (base * multiplier) \div 10 + bonus
    IN  IF total > 10 * ScoreScale THEN 10 * ScoreScale ELSE total

\* C14: the score of a candidate is the value of the reference formula, with
\* the candidate's own trust score whenever it carries one (0 included) and
\* 5.0 only when it carries none; the trust score put on the match is the one
\* the score was computed with.
C14_ReferenceFormula ==
    probe.pc = "scored" =>
       /\ probe.match.matchScore =
             ReferenceScore(probe.skill, probe.match.distance, probe.urgency)
       /\ probe.match.trustScore = ReferenceTrust(probe.skill)

\* the candidates the skill registry knows, each under its own skillId
RegistrySkills == UNION {{answer[i] : i \in 1..Len(answer)} : answer \in SkillResponses}

\* candidate c may be matched for the request of run rr: its tag is searched,
\* it is available and verified, and its score reaches the threshold of 5.0
MayBeMatched(c, rr) ==
    /\ \E i \in 1..Len(rr.skillsToFind) : c.skillType = rr.skillsToFind[i]
    /\ c.availability = "available"
    /\ c.verified = TRUE
    /\ ReferenceScore(c, calculateDistance(rr.sosData.location.latitude,
                                           rr.sosData.location.longitude,
                                           c.location.latitude, c.location.longitude),
                      rr.sosData.urgency) >= 5 * ScoreScale

\* C15: whatever findSkillMatches collects, returns or the run persists as a
\* skill match comes from a registry candidate whose tag is searched, that is
\* available and verified and whose score is at least the threshold; a
\* candidate failing one of the four is in no result and in no row.
C15_OnlyQualifiedCandidates ==
    \A r \in Runs :
       LET rr == run[r]
       IN  /\ \A j \in 1..Len(rr.skillAcc) :
                 /\ \E c \in RegistrySkills : c.skillId = rr.skillAcc[j].skillId
                 /\ \A c \in RegistrySkills :
                       c.skillId = rr.skillAcc[j].skillId => MayBeMatched(c, rr)
           /\ \A j \in 1..Len(rr.skillMatches) :
                 \A c \in RegistrySkills :
                    c.skillId = rr.skillMatches[j].skillId => MayBeMatched(c, rr)
           /\ \A row \in matchesTable :
                 ( row.skill_id # NULL /\ row.match_id \in SavedIds(rr) ) =>
                    /\ \E c \in RegistrySkills : c.skillId = row.skill_id
                    /\ \A c \in RegistrySkills :
                          c.skillId = row.skill_id => MayBeMatched(c, rr)

-----------------------------------------------------------------------------
(* Claims on the statistics *)

\* the matches the store shows as accepted
AcceptedMatches(table) == {row \in table : row.status = "accepted"}

\* the seconds from creation to acceptance, summed over a set of matches
RECURSIVE TimeToAcceptance(_)
TimeToAcceptance(rowSet) ==
    IF rowSet = {} THEN 0
    ELSE LET row == CHOOSE x \in rowSet : TRUE
         IN  (row.accepted_at - row.created_at) * SecondsPerTick
             + TimeToAcceptance(rowSet \ {row})

\* a number below 100 in two digits
TwoDigits(n) ==
    LET digit == <<"0", "1", "2", "3", "4", "5", "6", "7", "8", "9">>
    IN  digit[(n \div 10) + 1] \o digit[(n % 10) + 1]

\* whole seconds as HH:MM:SS
ClockText(seconds) ==
    TwoDigits(seconds \div 3600) \o ":" \o TwoDigits((seconds % 3600) \div 60)
    \o ":" \o TwoDigits(seconds % 60)

\* the mean time to acceptance over the accepted matches, as Stats shows it
MeanTimeToAcceptance(table) ==
    IF AcceptedMatches(table) = {} THEN "00:00:00"
    ELSE ClockText(TimeToAcceptance(AcceptedMatches(table))
                   \div Cardinality(AcceptedMatches(table)))

-----------------------------------------------------------------------------
(* Claims on the records of the store *)

\* the resources the registry knows, each under its own resourceId
RegistryResources ==
    UNION {{answer[i] : i \in 1..Len(answer)} :
              answer \in ResourceResponses \cup LifecycleResourceAnswers}

\* the row is a skill match: skillId and skillType set, no resource
IsSkillRecord(row) ==
    /\ row.skill_id # NULL /\ row.skill_type # NULL
    /\ row.resource_id = NULL /\ row.resource_type = NULL

\* the row is a resource match: resourceId and resourceType set, no skill,
\* score 8.0, no trust score, the resource's owner as volunteer
IsResourceRecord(row) ==
    /\ row.resource_id # NULL /\ row.resource_type # NULL
    /\ row.skill_id = NULL /\ row.skill_type = NULL
    /\ row.match_score = 8 * ScoreScale
    /\ row.trust_score = NULLN
    /\ \E c \in RegistryResources :
          c.resourceId = row.resource_id /\ c.userId = row.volunteer_id

\* C16: a record enters the store with status pending and no acceptance or
\* rejection on it, and every record of the store, at any time, is either a
\* skill match or a resource match: exactly one of the pairs (skillId,
\* skillType), (resourceId, resourceType) is set; a resource match has score
\* 8.0, no trust score and the resource's owner as its volunteer.
C16_RecordShape ==
    [][ /\ \A row \in matchesTable' :
              /\ IsSkillRecord(row) \/ IsResourceRecord(row)
              /\ ~(IsSkillRecord(row) /\ IsResourceRecord(row))
              /\ row.status \in {"pending", "accepted", "rejected"}
              /\ IsSkillRecord(row) => row.trust_score # NULLN
        /\ \A row \in matchesTable' :
              ~HasRow(matchesTable, row.match_id) =>
                 ( row.status = "pending" /\ row.accepted_at = NoTime
                   /\ row.rejected_at = NoTime /\ row.created_at = now )
      ]_vars

\* the store holds a skill match and a resource match, one of them accepted
C16_Witness ==
    \E skillRow, resourceRow \in matchesTable :
       /\ IsSkillRecord(skillRow)
       /\ IsResourceRecord(resourceRow)
       /\ "accepted" \in {skillRow.status, resourceRow.status}

-----------------------------------------------------------------------------
(* Claims on the end of a run and on repeated runs *)

\* C17: the status report is sent once per run, after the last INSERT, and
\* its failure does not fail the run: whether it succeeded or failed, the run
\* completes, publishes one match.created message per persisted match and
\* returns all the matches it persisted, skill matches before resource
\* matches; a run only fails before the report is sent.
C17_StatusReportNotFatal ==
    \A r \in Runs :
       LET rr == run[r]
       IN  /\ rr.statusAttempts <= 1
           /\ rr.pc = "failed" => (rr.statusAttempts = 0 /\ rr.statusReport = "none")
           /\ rr.statusReport # "none" => (rr.pc = "done" /\ rr.statusAttempts = 1)
           /\ rr.pc = "done" =>
                 /\ rr.statusReport \in {"ok", "failed"}
                 /\ rr.error = NULL
                 /\ Len(rr.savedMatches) = Len(rr.skillMatches) + Len(rr.resourceMatches)
                 /\ \A i \in 1..Len(rr.savedMatches) :
                       /\ HasRow(matchesTable, rr.savedMatches[i].matchId)
                       /\ Cardinality(CreatedEventsFor(rr.savedMatches[i].matchId)) = 1
                       /\ i <= Len(rr.skillMatches) =>
                             rr.savedMatches[i].skillId = rr.skillMatches[i].skillId
                       /\ i > Len(rr.skillMatches) =>
                             rr.savedMatches[i].resourceId =
                                rr.resourceMatches[i - Len(rr.skillMatches)].resourceId

\* a run whose status report failed completed with a skill match and a
\* resource match persisted, returned and announced
C17_Witness ==
    \E r \in Runs :
       /\ run[r].pc = "done"
       /\ run[r].statusReport = "failed"
       /\ run[r].skillMatches # <<>>
       /\ run[r].resourceMatches # <<>>
       /\ Len(run[r].savedMatches) = Len(run[r].skillMatches) + Len(run[r].resourceMatches)
       /\ \A id \in SavedIds(run[r]) :
             HasRow(matchesTable, id) /\ Cardinality(CreatedEventsFor(id)) = 1

\* the rows of the store that stem from a run
RowsOfRun(rr) == {row \in matchesTable : row.match_id \in SavedIds(rr)}

\* C18: runs neither look for nor wait for one another: every run that is
\* triggered, by a queue message or by POST /match, for a request another run
\* is matching or has matched, persists its own full match set under match
\* ids no other run uses and publishes its own match.created messages; the
\* store then holds several pending matches for the same request, volunteer
\* and skill.
C18_NoDeduplication ==
    /\ \A r1, r2 \in DOMAIN run :
          r1 # r2 => SavedIds(run[r1]) \cap SavedIds(run[r2]) = {}
    /\ \A r \in DOMAIN run :
          LET rr == run[r]
          IN  /\ rr.error = NULL
              /\ Cardinality(SavedIds(rr)) = Len(rr.savedMatches)
              /\ Cardinality(RowsOfRun(rr)) = Len(rr.savedMatches)
              /\ \A row \in RowsOfRun(rr) : row.request_id = rr.sosData.requestId
              /\ rr.pc = "done" =>
                    /\ \E i \in 1..Len(rr.savedMatches) :
                          /\ "skillId" \in DOMAIN rr.savedMatches[i]
                          /\ rr.savedMatches[i].skillId = "sk-1"
                    /\ \E i \in 1..Len(rr.savedMatches) :
                          /\ "resourceId" \in DOMAIN rr.savedMatches[i]
                          /\ rr.savedMatches[i].resourceId = "res-2"
                    /\ \A id \in SavedIds(rr) : Cardinality(CreatedEventsFor(id)) = 1

\* a queue message and a POST /match for the same request have both been
\* matched, and the store holds two pending matches for the same request,
\* volunteer and skill under different match ids
C18_Witness ==
    /\ \E r1, r2 \in DOMAIN run :
          /\ run[r1].pc = "done" /\ run[r1].via = "queue"
          /\ run[r2].pc = "done" /\ run[r2].via = "post"
          /\ run[r1].sosData.requestId = run[r2].sosData.requestId
    /\ \E row1, row2 \in matchesTable :
          /\ row1.match_id # row2.match_id
          /\ row1.request_id = row2.request_id
          /\ row1.volunteer_id = row2.volunteer_id
          /\ row1.skill_id # NULL /\ row1.skill_id = row2.skill_id
          /\ row1.status = "pending" /\ row2.status = "pending"

-----------------------------------------------------------------------------
(* Claims on the validation of POST /match *)

\* the fields of a body that break a rule of the schema
ViolatedFields(body) ==
    {f \in {"requestId", "disasterId", "urgency", "location"} : f \notin DOMAIN body}
    \cup (IF "location" \in DOMAIN body
          THEN {"location." \o f : f \in {"latitude", "longitude"} \ DOMAIN body.location}
          ELSE {})
    \cup (IF "disasterType" \in DOMAIN body /\ body.disasterType \notin
                {"flood", "earthquake", "cyclone", "fire", "tsunami", "landslide"}
          THEN {"disasterType"} ELSE {})
    \cup (IF "urgency" \in DOMAIN body /\ body.urgency \notin
                {"critical", "high", "medium", "low"}
          THEN {"urgency"} ELSE {})
    \cup (IF "radius" \in DOMAIN body /\ body.radius <= 0 THEN {"radius"} ELSE {})

\* the detail entries that refer to a field
DetailsAbout(field) ==
    {"\"" \o field \o "\" is required",
     "\"" \o field \o "\" must be a positive number",
     "\"" \o field \o "\" must be one of [critical, high, medium, low]",
     "\"" \o field \o "\" must be one of [flood, earthquake, cyclone, fire, tsunami, landslide]"}

\* C19: a POST /match whose body breaks a rule of the schema is answered 400
\* with one detail entry for each rule broken, all of them and not only the
\* first, each naming its field; answering it starts no run, makes no query,
\* persists nothing and publishes nothing, and every run POST /match starts
\* works on a body that breaks no rule.
C19_ValidationRejects ==
    [][ /\ post'.code = 400 =>
              /\ ViolatedFields(post'.body) # {}
              /\ Len(post'.error.details) = Cardinality(ViolatedFields(post'.body))
              /\ \A f \in ViolatedFields(post'.body) :
                    \E i \in 1..Len(post'.error.details) :
                       post'.error.details[i] \in DetailsAbout(f)
        /\ post' # post =>
              /\ post'.code = 400
              /\ run' = run
              /\ matchesTable' = matchesTable
              /\ published' = published
              /\ sosStatus' = sosStatus
              /\ nextUuid' = nextUuid
        /\ \A r \in DOMAIN run :
              run'[r].via = "post" => ViolatedFields(run'[r].sosData) = {}
      ]_vars

\* a body without location.latitude that breaks four more rules was answered
\* 400 with five details, one of them on the missing latitude, and nothing
\* was matched
C19_Witness ==
    /\ post.code = 400
    /\ "location" \in DOMAIN post.body
    /\ "latitude" \notin DOMAIN post.body.location
    /\ Len(post.error.details) = 5
    /\ \E i \in 1..Len(post.error.details) :
          post.error.details[i] = "\"location.latitude\" is required"
    /\ \A r \in DOMAIN run : run[r].pc = "idle"
    /\ matchesTable = {}
    /\ published = <<>>

-----------------------------------------------------------------------------
(* Claims on the number of matches of a run *)

\* C20: the matches one run persists and returns for its request, skill
\* matches and resource matches counted together, are at most the configured
\* maximum of matches per request (10 when not configured).
C20_TotalWithinMaximum ==
    \A r \in Runs :
       LET rr == run[r]
       IN  /\ Len(rr.savedMatches) <= ConfiguredMax
           /\ Cardinality(RowsOfRun(rr)) <= ConfiguredMax
           /\ ResourcesDone(rr) =>
                 Len(rr.skillMatches) + Len(rr.resourceMatches) <= ConfiguredMax

-----------------------------------------------------------------------------
(* Claims on the consistency of what the service reports *)

\* C21: in every answer of Stats the total is the sum of the three counts by
\* status, totalMatches = acceptedMatches + rejectedMatches + pendingMatches,
\* also when matches are created, accepted or rejected between the queries
\* that build the answer.
C21_StatsConsistent ==
    stats.pc = "done" =>
       stats.response.totalMatches =
          stats.response.acceptedMatches + stats.response.rejectedMatches
          + stats.response.pendingMatches

\* C22: a run reports the status "matched" for its request only when it has
\* persisted at least one match for it; a run that found no skill match and
\* no resource match sends no such report.
C22_MatchedOnlyWithMatches ==
    \A r \in Runs :
       LET rr == run[r]
       IN  /\ rr.statusAttempts > 0 => rr.savedMatches # <<>>
           /\ rr.statusReport = "ok" =>
                 \E row \in matchesTable :
                    row.match_id \in SavedIds(rr) /\ row.request_id = rr.sosData.requestId

====
